---- MODULE Spec2Model ----
(***************************************************************************)
(* A model of the Mapillary Python SDK's bounding-box feature controller   *)
(* (controller/feature.py), its kwarg verification rules                   *)
(* (controller/rules/verify.py) and the GeoJSON converters                  *)
(* (utils/format.py).                                                       *)
(*                                                                         *)
(* Python values are represented as follows.                               *)
(*   dict            a function from its keys (strings) to its values      *)
(*   list            a sequence                                            *)
(*   str             a string; a str that the code parses or serialises    *)
(*                   is [pystr |-> sequence of tokens]                     *)
(*   T or None       [none |-> TRUE] for None, [none |-> FALSE, v |-> x]   *)
(*   return / raise  [kind |-> "return", value |-> x] /                    *)
(*                   [kind |-> "raise", exc |-> name, param |-> p]         *)
(***************************************************************************)
EXTENDS Integers, Sequences, FiniteSets, TLC

VARIABLES
    pc,                 \* position of the running call
    fn,                 \* the function under call
    args,               \* its arguments
    ret,                \* its outcome (return value or raised exception)
    filters,            \* controller: the validated filters (feature.py:107)
    tiles,              \* controller: the enumerated tiles (feature.py:113)
    idx,                \* controller: position of the for loop in tiles
    res,                \* controller: the response of client.get
    data,               \* controller: the decoded tile
    filtered_features,  \* controller: the accumulator (feature.py:125)
    fetched,            \* log: the urls given to client.get, in order
    decoded,            \* log: the tiles vt_bytes_to_geojson decoded, in order
    piped,              \* log: the component lists given to pipeline
    failure             \* log: the failure a collaborator produced, if any

vars ==
    <<pc, fn, args, ret, filters, tiles, idx, res, data, filtered_features,
      fetched, decoded, piped, failure>>

----------------------------------------------------------------------------
(* Python values *)

None ==
    [none |-> TRUE]

Some(x) ==
    [none |-> FALSE, v |-> x]

Return(x) ==
    [kind |-> "return", value |-> x]

Raise(e, p) ==
    [kind |-> "raise", exc |-> e, param |-> p]

NoOutcome ==
    [kind |-> "running"]

Range(s) ==
    {s[i] : i \in DOMAIN s}

----------------------------------------------------------------------------
(* controller/rules/verify.py *)

ZoomLow ==
    14

ZoomHigh ==
    17

IsPanoOptions ==
    <<"pano", "flat", "all">>

\* kwarg_check with the upper zoom bound tested with >= instead of >
kwarg_check_zoom_off_by_one(kwargs, options) ==
    IF ~kwargs.none /\ \E key \in DOMAIN kwargs.v : key \notin Range(options)
    THEN Raise("InvalidKwargError", "")
    ELSE IF kwargs.none
    THEN Raise("TypeError", "")
    ELSE LET d == kwargs.v IN
         IF ("min_date" \in DOMAIN d \/ "max_date" \in DOMAIN d)
                /\ "daterange" \in DOMAIN d
         THEN Raise("ContradictingError", "")
         ELSE IF "zoom" \in DOMAIN d /\ (d["zoom"] < ZoomLow \/ d["zoom"] >= ZoomHigh)
         THEN Raise("InvalidOptionError", "zoom")
         ELSE IF "is_pano" \in DOMAIN d /\ d["is_pano"] \notin Range(IsPanoOptions)
         THEN Raise("InvalidOptionError", "is_pano")
         ELSE Return(TRUE)

\* kwargs is None or Some(dict); options is a list of keys.
kwarg_check(kwargs, options) ==
    IF ~kwargs.none /\ \E key \in DOMAIN kwargs.v : key \notin Range(options)
    THEN Raise("InvalidKwargError", "")
    ELSE IF kwargs.none
    THEN Raise("TypeError", "")   \* line 29: `"min_date" in None`
    ELSE LET d == kwargs.v IN
         IF ("min_date" \in DOMAIN d \/ "max_date" \in DOMAIN d)
                /\ "daterange" \in DOMAIN d
         THEN Raise("ContradictingError", "")
         ELSE IF "zoom" \in DOMAIN d /\ (d["zoom"] < ZoomLow \/ d["zoom"] > ZoomHigh)
         THEN Raise("InvalidOptionError", "zoom")
         ELSE IF "is_pano" \in DOMAIN d /\ d["is_pano"] \notin Range(IsPanoOptions)
         THEN Raise("InvalidOptionError", "is_pano")
         ELSE Return(TRUE)

image_check(kwargs) ==
    kwarg_check(kwargs,
        <<"min_date", "max_date", "daterange", "radius", "image_type",
          "org_id", "fields">>)

shape_bbox_check(kwargs) ==
    kwarg_check(kwargs, <<"max_date", "min_date", "is_pano">>)

----------------------------------------------------------------------------
(* utils/format.py *)

EmptyDict ==
    [k \in {} |-> ""]

IsStr(x) ==
    "pystr" \in DOMAIN x

\* a in b, for two Python strs given as sequences of characters
str_in_str(a, b) ==
    \E k \in 0..(Len(b) - Len(a)) : SubSeq(b, k + 1, k + Len(a)) = a

\* int(s) on the decimal strs the model uses as ids
py_int(s) ==
    CASE s = "1" -> 1
      [] s = "01" -> 1
      [] s = "2" -> 2
      [] s = "02" -> 2
      [] s = "3" -> 3

\* the order in which a properties dict lists its keys
KeyOrder ==
    <<"id", "key", "value", "first_seen_at">>

NumberKeys ==
    {"first_seen_at"}

DumpsStr(s) ==
    <<"\"", s, "\"">>

DumpsNum(n) ==
    <<ToString(n)>>

DumpsGeometry(g) ==
    IF DOMAIN g = {}
    THEN <<"{", "}">>
    ELSE <<"{">> \o DumpsStr("type") \o <<":">> \o DumpsStr(g["type"]) \o <<",">>
         \o DumpsStr("coordinates") \o <<":", "[">>
         \o DumpsNum(g["coordinates"][1]) \o <<",">>
         \o DumpsNum(g["coordinates"][2]) \o <<"]", "}">>

RECURSIVE DumpsProperties(_, _, _)
DumpsProperties(p, k, first) ==
    IF k > Len(KeyOrder)
    THEN <<>>
    ELSE IF KeyOrder[k] \notin DOMAIN p
    THEN DumpsProperties(p, k + 1, first)
    ELSE (IF first THEN <<>> ELSE <<",">>)
         \o DumpsStr(KeyOrder[k]) \o <<":">>
         \o (IF KeyOrder[k] \in NumberKeys
             THEN DumpsNum(p[KeyOrder[k]])
             ELSE DumpsStr(p[KeyOrder[k]]))
         \o DumpsProperties(p, k + 1, FALSE)

DumpsFeature(f) ==
    <<"{">> \o DumpsStr("type") \o <<":">> \o DumpsStr(f["type"]) \o <<",">>
    \o DumpsStr("geometry") \o <<":">> \o DumpsGeometry(f["geometry"]) \o <<",">>
    \o DumpsStr("properties") \o <<":", "{">>
    \o DumpsProperties(f["properties"], 1, TRUE) \o <<"}", "}">>

RECURSIVE DumpsList(_, _)
DumpsList(l, k) ==
    IF k > Len(l)
    THEN <<>>
    ELSE (IF k = 1 THEN <<>> ELSE <<",">>) \o DumpsFeature(l[k]) \o DumpsList(l, k + 1)

\* json.dumps of {"type": "FeatureCollection", "features": features_list}
json_dumps(obj) ==
    [pystr |->
        <<"{">> \o DumpsStr("type") \o <<":">> \o DumpsStr(obj["type"]) \o <<",">>
        \o DumpsStr("features") \o <<":", "[">> \o DumpsList(obj["features"], 1)
        \o <<"]", "}">>]

feature_to_geojson(json_data) ==
    IF "geometry" \notin DOMAIN json_data
    THEN Raise("KeyError", "geometry")
    ELSE Return(
        [type |-> "Feature",
         geometry |-> json_data["geometry"],
         properties |-> [key \in DOMAIN json_data \ {"geometry"} |-> json_data[key]]])

geojson_to_features_list(json_data) ==
    IF IsStr(json_data)
    THEN Raise("TypeError", "")     \* a str is indexed by integers only
    ELSE IF "features" \notin DOMAIN json_data
    THEN Raise("KeyError", "features")
    ELSE Return(json_data["features"])

merged_features_list_to_geojson(features_list) ==
    json_dumps([type |-> "FeatureCollection", features |-> features_list])

\* One Feature of detection_features_to_geojson (lines 177-206), before the
\* clean-up loop.  A property value is None or Some(value).
detection_feature(feature) ==
    [type |-> "Feature",
     geometry |->
        IF "image" \in DOMAIN feature
        THEN [type |-> "Point",
              coordinates |-> feature["image"]["geometry"]["coordinates"]]
        ELSE EmptyDict,
     properties |->
        [image_id |->
            \* line 191 tests the two str literals: "image" in "feature"
            IF str_in_str(<<"i", "m", "a", "g", "e">>,
                          <<"f", "e", "a", "t", "u", "r", "e">>)
            THEN Some(feature["image"]["id"])
            ELSE None,
         created_at |->
            IF "created_at" \in DOMAIN feature
            THEN Some(feature["created_at"]) ELSE None,
         pixel_geometry |->
            IF "geometry" \in DOMAIN feature
            THEN Some(feature["geometry"]) ELSE None,
         value |->
            IF "value" \in DOMAIN feature THEN Some(feature["value"]) ELSE None,
         id |-> Some(feature["id"])]]

\* `_property is None` of line 221: _property is a key of the dict, a str
property_is_None(_property) ==
    FALSE

\* the clean-up loop of lines 215-224 on one Feature
remove_none_properties(_feature) ==
    [_feature EXCEPT !["properties"] =
        [_property \in {k \in DOMAIN _feature["properties"] : ~property_is_None(k)}
            |-> _feature["properties"][_property]]]

detection_features_to_geojson(feature_list) ==
    [type |-> "FeatureCollection",
     features |->
        [n \in 1..Len(feature_list) |->
            remove_none_properties(detection_feature(feature_list[n]))]]

\* The loops of join_geojson_with_keys from the i-th source feature and the
\* j-th destination feature on.
RECURSIVE join_loop(_, _, _, _, _, _)
join_loop(geojson_src, geojson_src_key, geojson_dest, geojson_dest_key, i, j) ==
    IF i > Len(geojson_src["features"])
    THEN Return(geojson_src)
    ELSE IF j > Len(geojson_dest["features"])
    THEN join_loop(geojson_src, geojson_src_key, geojson_dest, geojson_dest_key, i + 1, 1)
    ELSE
      LET from_features == geojson_src["features"][i]
          into_features == geojson_dest["features"][j]
          continue ==
            join_loop(geojson_src, geojson_src_key, geojson_dest, geojson_dest_key, i, j + 1)
      IN
        IF geojson_dest_key \notin DOMAIN into_features["properties"]
              \/ geojson_src_key \notin DOMAIN from_features["properties"]
        THEN continue
        ELSE IF py_int(from_features["properties"][geojson_src_key])
                    = py_int(into_features["properties"][geojson_dest_key])
        THEN LET old_properties == DOMAIN from_features["properties"]
                 new_properties == DOMAIN into_features["properties"]
             IN  IF \E new_property \in new_properties : new_property \notin old_properties
                 \* lines 98-100: old_properties is a list, old_properties["properties"]
                 \* raises before anything is stored
                 THEN Raise("TypeError", "")
                 ELSE continue
        ELSE continue

join_geojson_with_keys(geojson_src, geojson_src_key, geojson_dest, geojson_dest_key) ==
    join_loop(geojson_src, geojson_src_key, geojson_dest, geojson_dest_key, 1, 1)

\* geojson_to_polgyon with the coordinates listed once, not twice
geojson_to_polgyon_single_list(geojson) ==
    [type |-> "FeatureCollection",
     features |->
        << [type |-> "Feature",
            properties |-> EmptyDict,
            geometry |->
                [type |-> "Polygon",
                 coordinates |->
                    [n \in 1..Len(geojson["features"]) |->
                        geojson["features"][n]["geometry"]["coordinates"]]]] >>]

\* The argument handed to GeoJSON(geojson=...); the GeoJSON object holds it.
geojson_to_polgyon(geojson) ==
    [type |-> "FeatureCollection",
     features |->
        << [type |-> "Feature",
            properties |-> EmptyDict,
            geometry |->
                [type |-> "Polygon",
                 coordinates |->
                    << [n \in 1..Len(geojson["features"]) |->
                            geojson["features"][n]["geometry"]["coordinates"]] >>]] >>]

----------------------------------------------------------------------------
(* collaborators of the controller: utils/verify.py and utils/filter.py *)

dict_get(d, key) ==
    IF key \in DOMAIN d THEN d[key] ELSE None

\* Validates the filters of a points / traffic signs request and returns the
\* normalised mapping, in which an omitted key is None.
points_traffic_signs_check(kwargs) ==
    LET checked == kwarg_check(kwargs, <<"existed_at", "existed_before">>) IN
    IF checked.kind = "raise"
    THEN checked
    ELSE Return([existed_at |-> dict_get(kwargs.v, "existed_at"),
                 existed_before |-> dict_get(kwargs.v, "existed_before")])

filter_values_keep(feature, component) ==
    feature["properties"][component["property"]] \in Range(component["values"])

features_in_bounding_box_keep(feature, component) ==
    LET lon == feature["geometry"]["coordinates"][1]
        lat == feature["geometry"]["coordinates"][2]
        box == component["bbox"]
    IN  box["west"] <= lon /\ lon <= box["east"]
        /\ box["south"] <= lat /\ lat <= box["north"]

existed_at_keep(feature, component) ==
    feature["properties"]["first_seen_at"] >= component["existed_at"]

existed_before_keep(feature, component) ==
    feature["properties"]["first_seen_at"] <= component["existed_before"]

\* an empty component is skipped
component_keep(feature, component) ==
    IF DOMAIN component = {} THEN TRUE
    ELSE CASE component["filter"] = "filter_values" ->
                filter_values_keep(feature, component)
           [] component["filter"] = "features_in_bounding_box" ->
                features_in_bounding_box_keep(feature, component)
           [] component["filter"] = "existed_at" ->
                existed_at_keep(feature, component)
           [] component["filter"] = "existed_before" ->
                existed_before_keep(feature, component)

pipeline(tile_data, components) ==
    LET keep(feature) ==
            \A n \in DOMAIN components : component_keep(feature, components[n])
    IN  SelectSeq(tile_data["features"], keep)

----------------------------------------------------------------------------
(* controller/feature.py: get_map_features_in_bbox_controller *)

TileZoom ==
    14

\* lines 129-133
tile_url(tile, layer) ==
    [endpoint |->
        IF layer = "points" THEN "map_feature_point" ELSE "map_feature_traffic_signs",
     x |-> tile.x, y |-> tile.y, z |-> tile.z]

\* components_of with the existed_before stage switched on by existed_at
components_of_copied_condition(bbox, filter_values, validated) ==
    << IF ~filter_values.none
       THEN [filter |-> "filter_values", values |-> filter_values.v, property |-> "value"]
       ELSE EmptyDict,
       [filter |-> "features_in_bounding_box", bbox |-> bbox],
       IF ~validated["existed_at"].none
       THEN [filter |-> "existed_at", existed_at |-> validated["existed_at"].v]
       ELSE EmptyDict,
       IF ~validated["existed_at"].none /\ ~validated["existed_before"].none
       THEN [filter |-> "existed_before", existed_before |-> validated["existed_before"].v]
       ELSE EmptyDict >>

\* lines 143-168: the list handed to pipeline as components
components_of(bbox, filter_values, validated) ==
    << IF ~filter_values.none
       THEN [filter |-> "filter_values", values |-> filter_values.v, property |-> "value"]
       ELSE EmptyDict,
       [filter |-> "features_in_bounding_box", bbox |-> bbox],
       IF ~validated["existed_at"].none
       THEN [filter |-> "existed_at", existed_at |-> validated["existed_at"].v]
       ELSE EmptyDict,
       IF ~validated["existed_before"].none
       THEN [filter |-> "existed_before", existed_before |-> validated["existed_before"].v]
       ELSE EmptyDict >>

----------------------------------------------------------------------------
(* bounds and inputs *)

MaxTiles ==
    2

MaxTileLen ==
    2

MaxLen ==
    2

ZoomSpread ==
    2

SeqsUpTo(S, n) ==
    UNION {[1..k -> S] : k \in 0..n}

Feat(coords, props) ==
    [type |-> "Feature",
     geometry |-> [type |-> "Point", coordinates |-> coords],
     properties |-> props]

\* the query box and the features a decoded tile may hold
BBox ==
    [west |-> 0, south |-> 0, east |-> 2, north |-> 2]

TileFeatures ==
    { Feat(<<1, 1>>, [id |-> "1", value |-> "a", first_seen_at |-> 1]),
      Feat(<<2, 0>>, [id |-> "2", value |-> "b", first_seen_at |-> 3]),
      Feat(<<5, 5>>, [id |-> "3", value |-> "a", first_seen_at |-> 2]) }

TileData ==
    {[type |-> "FeatureCollection", features |-> l] :
        l \in SeqsUpTo(TileFeatures, MaxTileLen)}

FilterKeys ==
    {"existed_at", "existed_before", "daterange"}

Timestamps ==
    {None, Some(2)}

FetchErrors ==
    {"ConnectionError", "HTTPError"}

DecodeErrors ==
    {"DecodeError"}

NoFailure ==
    [stage |-> "none", tile |-> 0, exc |-> ""]

Idle ==
    /\ filters = None
    /\ tiles = <<>>
    /\ idx = 0
    /\ res = None
    /\ data = None
    /\ filtered_features = <<>>
    /\ fetched = <<>>
    /\ decoded = <<>>
    /\ piped = <<>>
    /\ failure = NoFailure

Init ==
    /\ pc = "start"
    /\ fn = "get_map_features_in_bbox_controller"
    /\ ret = NoOutcome
    /\ \E fv \in {None, Some(<<"a">>)}, layer \in {"points", "traffic_signs"},
          keys \in SUBSET FilterKeys, ea \in Timestamps, eb \in Timestamps,
          isNone \in BOOLEAN :
            args = [bbox |-> BBox,
                    filter_values |-> fv,
                    layer |-> layer,
                    filters |->
                        IF isNone THEN None
                        ELSE Some([k \in keys |->
                                CASE k = "existed_at" -> ea
                                  [] k = "existed_before" -> eb
                                  [] OTHER -> Some(2)])]
    /\ Idle

ControllerUnchanged ==
    UNCHANGED <<fn, args>>

\* Validate with a rejected mapping let through to the tile loop
Validate_lenient ==
    /\ pc = "start"
    /\ fn = "get_map_features_in_bbox_controller"
    /\ LET checked == points_traffic_signs_check(args.filters) IN
       /\ pc' = "tiles"
       /\ filters' = IF checked.kind = "raise"
                     THEN [existed_at |-> None, existed_before |-> None]
                     ELSE checked.value
       /\ UNCHANGED ret
    /\ UNCHANGED <<tiles, idx, res, data, filtered_features, fetched, decoded,
                   piped, failure>>
    /\ ControllerUnchanged

\* line 107
Validate ==
    /\ pc = "start"
    /\ fn = "get_map_features_in_bbox_controller"
    /\ LET checked == points_traffic_signs_check(args.filters) IN
       IF checked.kind = "raise"
       THEN /\ pc' = "raised"
            /\ ret' = checked
            /\ UNCHANGED filters
       ELSE /\ pc' = "tiles"
            /\ filters' = checked.value
            /\ UNCHANGED ret
    /\ UNCHANGED <<tiles, idx, res, data, filtered_features, fetched, decoded,
                   piped, failure>>
    /\ ControllerUnchanged

\* lines 110-125: the client, the tiles mercantile enumerates for the bbox at
\* zoom 14, the empty accumulator
EnumerateTiles ==
    /\ pc = "tiles"
    /\ \E n \in 1..MaxTiles :
         tiles' = [k \in 1..n |-> [x |-> k, y |-> 0, z |-> TileZoom]]
    /\ filtered_features' = <<>>
    /\ idx' = 1
    /\ pc' = "loop"
    /\ UNCHANGED <<ret, filters, res, data, fetched, decoded, piped, failure>>
    /\ ControllerUnchanged

\* Fetch with a failed tile skipped instead of raised
Fetch_skip_failed ==
    /\ pc = "loop"
    /\ idx <= Len(tiles)
    /\ fetched' = Append(fetched, tile_url(tiles[idx], args.layer))
    /\ \/ /\ res' = Some([content |-> idx])
          /\ pc' = "decode"
          /\ UNCHANGED <<ret, failure, idx>>
       \/ \E e \in FetchErrors :
            /\ failure' = [stage |-> "fetch", tile |-> idx, exc |-> e]
            /\ idx' = idx + 1
            /\ pc' = "loop"
            /\ UNCHANGED <<res, ret>>
    /\ UNCHANGED <<filters, tiles, data, filtered_features, decoded, piped>>
    /\ ControllerUnchanged

\* lines 127-135: the next tile, its url, client.get
Fetch ==
    /\ pc = "loop"
    /\ idx <= Len(tiles)
    /\ fetched' = Append(fetched, tile_url(tiles[idx], args.layer))
    /\ \/ /\ res' = Some([content |-> idx])
          /\ pc' = "decode"
          /\ UNCHANGED <<ret, failure>>
       \/ \E e \in FetchErrors :
            /\ failure' = [stage |-> "fetch", tile |-> idx, exc |-> e]
            /\ ret' = Raise(e, "")
            /\ pc' = "raised"
            /\ UNCHANGED res
    /\ UNCHANGED <<filters, tiles, idx, data, filtered_features, decoded, piped>>
    /\ ControllerUnchanged

\* line 138: vt_bytes_to_geojson
Decode ==
    /\ pc = "decode"
    /\ \/ \E d \in TileData :
            /\ data' = Some(d)
            /\ decoded' = Append(decoded, idx)
            /\ pc' = "pipeline"
            /\ UNCHANGED <<ret, failure>>
       \/ \E e \in DecodeErrors :
            /\ failure' = [stage |-> "decode", tile |-> idx, exc |-> e]
            /\ ret' = Raise(e, "")
            /\ pc' = "raised"
            /\ UNCHANGED <<data, decoded>>
    /\ UNCHANGED <<filters, tiles, idx, res, filtered_features, fetched, piped>>
    /\ ControllerUnchanged

\* RunPipeline with a survivor dropped when the accumulator already holds it
RunPipeline_dedup ==
    /\ pc = "pipeline"
    /\ LET components == components_of(args.bbox, args.filter_values, filters)
           survivors == pipeline(data.v, components)
           fresh(f) == f \notin Range(filtered_features)
       IN  /\ piped' = Append(piped,
                   [components |-> components, survivors |-> survivors])
           /\ filtered_features' = filtered_features \o SelectSeq(survivors, fresh)
           /\ idx' = idx + 1
           /\ pc' = "loop"
           /\ UNCHANGED ret
    /\ UNCHANGED <<filters, tiles, res, data, fetched, decoded, failure>>
    /\ ControllerUnchanged

\* lines 140-170: filtered_features.extend(pipeline(data=data, components=[...]))
RunPipeline ==
    /\ pc = "pipeline"
    /\ IF {"existed_at", "existed_before"} \subseteq DOMAIN filters
       THEN LET components == components_of(args.bbox, args.filter_values, filters)
                survivors == pipeline(data.v, components)
            IN  /\ piped' = Append(piped,
                        [components |-> components, survivors |-> survivors])
                /\ filtered_features' = filtered_features \o survivors
                /\ idx' = idx + 1
                /\ pc' = "loop"
                /\ UNCHANGED ret
       ELSE /\ ret' = Raise("KeyError", "")
            /\ pc' = "raised"
            /\ UNCHANGED <<piped, filtered_features, idx>>
    /\ UNCHANGED <<filters, tiles, res, data, fetched, decoded, failure>>
    /\ ControllerUnchanged

\* line 172
ReturnGeojson ==
    /\ pc = "loop"
    /\ idx > Len(tiles)
    /\ ret' = Return(merged_features_list_to_geojson(filtered_features))
    /\ pc' = "done"
    /\ UNCHANGED <<filters, tiles, idx, res, data, filtered_features, fetched,
                   decoded, piped, failure>>
    /\ ControllerUnchanged

Next ==
    \/ Validate
    \/ EnumerateTiles
    \/ Fetch
    \/ Decode
    \/ RunPipeline
    \/ ReturnGeojson

Spec ==
    Init /\ [][Next]_vars

----------------------------------------------------------------------------
(* claims about get_map_features_in_bbox_controller *)

InController ==
    fn = "get_map_features_in_bbox_controller"

ValidationOutcome ==
    points_traffic_signs_check(args.filters)

NoTileWork ==
    /\ tiles = <<>>
    /\ fetched = <<>>
    /\ decoded = <<>>
    /\ piped = <<>>
    /\ failure = NoFailure

\* C1: when the validation of `filters` fails, the call ends with that
\* validation error, and no tile is ever enumerated, fetched or decoded and
\* no pipeline run happens.
C1_ValidationBeforeTileWork ==
    (InController /\ ValidationOutcome.kind = "raise") =>
        /\ pc \in {"start", "raised"}
        /\ pc = "raised" => ret = ValidationOutcome
        /\ NoTileWork

C1_Witness ==
    /\ InController
    /\ pc = "raised"
    /\ ValidationOutcome.kind = "raise"
    /\ ret.exc = "InvalidKwargError"
    /\ NoTileWork

\* C2: when the fetch or the decode of tile i fails, the call ends with that
\* same failure, tile i is the last tile fetched, and nothing is returned,
\* whatever earlier tiles put in the accumulator.
C2_TileFailureAborts ==
    (InController /\ failure.stage \in {"fetch", "decode"}) =>
        /\ pc = "raised"
        /\ ret = Raise(failure.exc, "")
        /\ idx = failure.tile
        /\ Len(fetched) = failure.tile
        /\ Len(piped) = failure.tile - 1

C2_Witness ==
    /\ InController
    /\ failure.stage = "decode"
    /\ failure.tile = 2
    /\ filtered_features # <<>>
    /\ pc = "raised"
    /\ ret.kind = "raise"

RECURSIVE ConcatSurvivors(_)
ConcatSurvivors(n) ==
    IF n = 0 THEN <<>> ELSE ConcatSurvivors(n - 1) \o piped[n].survivors

\* C3: the accumulator is the concatenation, in tile order, of what the
\* pipeline returned for each tile, and when every tile succeeds the call
\* returns the serialised FeatureCollection of exactly that list, one
\* pipeline run per tile, duplicates kept.
C3_ConcatenationInTileOrder ==
    InController =>
        /\ filtered_features = ConcatSurvivors(Len(piped))
        /\ pc = "done" =>
            /\ Len(piped) = Len(tiles)
            /\ ret = Return(json_dumps(
                    [type |-> "FeatureCollection",
                     features |-> ConcatSurvivors(Len(tiles))]))

C3_Witness ==
    /\ InController
    /\ pc = "done"
    /\ Len(tiles) = 2
    /\ \E f \in TileFeatures :
        /\ f \in Range(piped[1].survivors)
        /\ f \in Range(piped[2].survivors)
        /\ Cardinality({n \in DOMAIN filtered_features : filtered_features[n] = f}) = 2

\* the stage list C4 describes, from the caller's arguments
ExpectedComponents ==
    LET given == args.filters.v
        specified(key) == key \in DOMAIN given /\ ~given[key].none
    IN  << IF ~args.filter_values.none
           THEN [filter |-> "filter_values", values |-> args.filter_values.v,
                 property |-> "value"]
           ELSE EmptyDict,
           [filter |-> "features_in_bounding_box", bbox |-> args.bbox],
           IF specified("existed_at")
           THEN [filter |-> "existed_at", existed_at |-> given["existed_at"].v]
           ELSE EmptyDict,
           IF specified("existed_before")
           THEN [filter |-> "existed_before", existed_before |-> given["existed_before"].v]
           ELSE EmptyDict >>

----------------------------------------------------------------------------
(* the verification rules called on their own *)

KwargKeys ==
    {"min_date", "max_date", "daterange", "zoom", "is_pano", "radius"}

ZoomsTried ==
    (ZoomLow - ZoomSpread)..(ZoomHigh + ZoomSpread)

IsPanoTried ==
    {"pano", "flat", "all", "both"}

OptionLists ==
    { <<"min_date", "max_date", "daterange", "zoom", "is_pano", "radius">>,
      <<"min_date", "max_date", "daterange", "zoom", "is_pano">>,
      <<"zoom">>,
      <<>> }

InitKwarg ==
    /\ pc = "start"
    /\ ret = NoOutcome
    /\ fn \in {"kwarg_check", "image_check", "shape_bbox_check"}
    /\ \E keys \in SUBSET KwargKeys, zoom \in ZoomsTried, is_pano \in IsPanoTried,
          isNone \in BOOLEAN, options \in OptionLists :
            args = [kwargs |->
                        IF isNone THEN None
                        ELSE Some([k \in keys |->
                                CASE k = "zoom" -> zoom
                                  [] k = "is_pano" -> is_pano
                                  [] OTHER -> "2021"]),
                    options |-> IF fn = "kwarg_check" THEN options ELSE <<>>]
    /\ Idle

Finish(outcome) ==
    /\ ret' = outcome
    /\ pc' = "done"
    /\ UNCHANGED <<fn, args, filters, tiles, idx, res, data, filtered_features,
                   fetched, decoded, piped, failure>>

KwargCheck ==
    /\ pc = "start"
    /\ fn = "kwarg_check"
    /\ Finish(kwarg_check(args.kwargs, args.options))

ImageCheck ==
    /\ pc = "start"
    /\ fn = "image_check"
    /\ Finish(image_check(args.kwargs))

ShapeBboxCheck ==
    /\ pc = "start"
    /\ fn = "shape_bbox_check"
    /\ Finish(shape_bbox_check(args.kwargs))

NextKwarg ==
    \/ KwargCheck
    \/ ImageCheck
    \/ ShapeBboxCheck

SpecKwarg ==
    InitKwarg /\ [][NextKwarg]_vars

\* the outcome C9 describes, for a kwargs dict d and an options list
ExpectedKwargOutcome(d, options) ==
    IF \E key \in DOMAIN d : \A n \in DOMAIN options : options[n] # key
    THEN Raise("InvalidKwargError", "")
    ELSE IF "daterange" \in DOMAIN d /\ DOMAIN d \cap {"min_date", "max_date"} # {}
    THEN Raise("ContradictingError", "")
    ELSE IF "zoom" \in DOMAIN d /\ d["zoom"] \notin {14, 15, 16, 17}
    THEN Raise("InvalidOptionError", "zoom")
    ELSE IF "is_pano" \in DOMAIN d /\ d["is_pano"] \notin {"pano", "flat", "all"}
    THEN Raise("InvalidOptionError", "is_pano")
    ELSE Return(TRUE)

\* C9: for a kwargs dict and an options list, kwarg_check ends in the first
\* of: InvalidKwargError (a key not in options), ContradictingError (daterange
\* with min_date or max_date), InvalidOptionError for zoom (not in 14..17),
\* InvalidOptionError for is_pano (not pano, flat or all), and True otherwise.
C9_KwargCheckOutcome ==
    (fn = "kwarg_check" /\ pc = "done" /\ ~args.kwargs.none) =>
        ret = ExpectedKwargOutcome(args.kwargs.v, args.options)

C9_Witness ==
    /\ fn = "kwarg_check"
    /\ pc = "done"
    /\ ~args.kwargs.none
    /\ DOMAIN args.kwargs.v = {"zoom", "is_pano"}
    /\ args.kwargs.v["zoom"] = 17
    /\ args.kwargs.v["is_pano"] = "both"
    /\ ret = Raise("InvalidOptionError", "is_pano")

----------------------------------------------------------------------------
(* the converters of utils/format.py called on their own *)

FormatFeatures ==
    { Feat(<<1, 1>>, [id |-> "1"]),
      Feat(<<2, 0>>, [id |-> "01", value |-> "a"]),
      Feat(<<5, 5>>, [id |-> "2", key |-> "1", value |-> "b"]),
      Feat(<<0, 2>>, [value |-> "a"]) }

FeatureLists ==
    SeqsUpTo(FormatFeatures, MaxLen)

Collection(features) ==
    [type |-> "FeatureCollection", features |-> features]

OptionalAttributes ==
    {"image", "created_at", "geometry", "value"}

Images ==
    { [id |-> "9", geometry |-> [type |-> "Point", coordinates |-> <<1, 2>>]],
      [id |-> "8", geometry |-> [type |-> "Point", coordinates |-> <<3, 4>>]] }

DetectionRecord(keys, image) ==
    [k \in keys \cup {"id"} |->
        CASE k = "image" -> image
          [] k = "created_at" -> "2021-05-20"
          [] k = "geometry" -> "GjUKBm1w"
          [] k = "value" -> "regulatory--no-parking--g2"
          [] k = "id" -> "1"]

DetectionRecords ==
    {DetectionRecord(keys, image) : keys \in SUBSET OptionalAttributes, image \in Images}

InitFormat ==
    /\ pc = "start"
    /\ ret = NoOutcome
    /\ \/ /\ fn = "detection_features_to_geojson"
          /\ \E l \in SeqsUpTo(DetectionRecords, MaxLen) : args = [feature_list |-> l]
       \/ /\ fn = "join_geojson_with_keys"
          /\ \E s \in FeatureLists, d \in FeatureLists, dk \in {"id", "key"} :
                args = [geojson_src |-> Collection(s), geojson_src_key |-> "id",
                        geojson_dest |-> Collection(d), geojson_dest_key |-> dk]
       \/ /\ fn = "geojson_to_polgyon"
          /\ \E l \in FeatureLists : args = [geojson |-> Collection(l)]
       \/ /\ fn = "merged_features_list_to_geojson"
          /\ \E l \in FeatureLists : args = [features_list |-> l]
       \/ /\ fn = "geojson_to_features_list"
          /\ \E l \in FeatureLists : args = [json_data |-> Collection(l)]
    /\ Idle

DetectionFeaturesToGeojson ==
    /\ pc = "start"
    /\ fn = "detection_features_to_geojson"
    /\ Finish(Return(detection_features_to_geojson(args.feature_list)))

JoinGeojsonWithKeys ==
    /\ pc = "start"
    /\ fn = "join_geojson_with_keys"
    /\ Finish(join_geojson_with_keys(args.geojson_src, args.geojson_src_key,
                                     args.geojson_dest, args.geojson_dest_key))

GeojsonToPolgyon ==
    /\ pc = "start"
    /\ fn = "geojson_to_polgyon"
    /\ Finish(Return(geojson_to_polgyon(args.geojson)))

MergedFeaturesListToGeojson ==
    /\ pc = "start"
    /\ fn = "merged_features_list_to_geojson"
    /\ ret' = Return(merged_features_list_to_geojson(args.features_list))
    /\ pc' = "merged"
    /\ UNCHANGED <<fn, args, filters, tiles, idx, res, data, filtered_features,
                   fetched, decoded, piped, failure>>

\* called on a FeatureCollection, or on what merged_features_list_to_geojson
\* returned (the round trip)
GeojsonToFeaturesList ==
    \/ /\ pc = "start"
       /\ fn = "geojson_to_features_list"
       /\ Finish(geojson_to_features_list(args.json_data))
    \/ /\ pc = "merged"
       /\ Finish(geojson_to_features_list(ret.value))

NextFormat ==
    \/ DetectionFeaturesToGeojson
    \/ JoinGeojsonWithKeys
    \/ GeojsonToPolgyon
    \/ MergedFeaturesListToGeojson
    \/ GeojsonToFeaturesList

SpecFormat ==
    InitFormat /\ [][NextFormat]_vars

----------------------------------------------------------------------------
(* claims about the converters *)

DetectionDone ==
    fn = "detection_features_to_geojson" /\ pc = "done"

\* the output property each optional attribute of a detection becomes
PropertyOf ==
    [image |-> "image_id", created_at |-> "created_at",
     geometry |-> "pixel_geometry", value |-> "value"]

\* C5: no Feature of detection_features_to_geojson has a property whose
\* value is None: each of image_id, created_at, pixel_geometry and value is
\* a key of the properties iff the record carried the attribute.
C5_NoNullProperty ==
    DetectionDone =>
        \A n \in DOMAIN args.feature_list :
            LET record == args.feature_list[n]
                properties == ret.value["features"][n]["properties"]
            IN  /\ \A key \in DOMAIN properties : ~properties[key].none
                /\ \A attribute \in OptionalAttributes :
                        PropertyOf[attribute] \in DOMAIN properties
                            <=> attribute \in DOMAIN record

\* C6: a record with `image` gives a Feature whose geometry is the Point at
\* the image's coordinates and whose image_id is the image's id; a record
\* without `image` gives the empty geometry.
C6_ImageGeometryAndId ==
    DetectionDone =>
        \A n \in DOMAIN args.feature_list :
            LET record == args.feature_list[n]
                feature == ret.value["features"][n]
            IN  IF "image" \in DOMAIN record
                THEN /\ feature["geometry"] =
                            [type |-> "Point",
                             coordinates |-> record["image"]["geometry"]["coordinates"]]
                     /\ "image_id" \in DOMAIN feature["properties"]
                     /\ feature["properties"]["image_id"] = Some(record["image"]["id"])
                ELSE feature["geometry"] = EmptyDict

JoinMatches(from_features, into_features) ==
    /\ args.geojson_src_key \in DOMAIN from_features["properties"]
    /\ args.geojson_dest_key \in DOMAIN into_features["properties"]
    /\ py_int(from_features["properties"][args.geojson_src_key])
            = py_int(into_features["properties"][args.geojson_dest_key])

\* C7: join_geojson_with_keys returns the source collection in which every
\* source feature has, besides its own properties with their own values,
\* every property of every matching destination feature that it lacked,
\* with a matching destination feature's value; a feature that matches
\* nothing is unchanged.
C7_JoinCopiesNewProperties ==
    (fn = "join_geojson_with_keys" /\ pc = "done") =>
        /\ ret.kind = "return"
        /\ ret.value["type"] = args.geojson_src["type"]
        /\ Len(ret.value["features"]) = Len(args.geojson_src["features"])
        /\ \A n \in DOMAIN args.geojson_src["features"] :
            LET before == args.geojson_src["features"][n]
                after == ret.value["features"][n]
                matching == {m \in DOMAIN args.geojson_dest["features"] :
                                JoinMatches(before, args.geojson_dest["features"][m])}
                copied == UNION {DOMAIN args.geojson_dest["features"][m]["properties"] :
                                    m \in matching}
            IN  /\ after["geometry"] = before["geometry"]
                /\ DOMAIN after["properties"] = DOMAIN before["properties"] \cup copied
                /\ \A key \in DOMAIN before["properties"] :
                        after["properties"][key] = before["properties"][key]
                /\ \A key \in copied \ DOMAIN before["properties"] :
                        \E m \in matching :
                            /\ key \in DOMAIN args.geojson_dest["features"][m]["properties"]
                            /\ after["properties"][key]
                                = args.geojson_dest["features"][m]["properties"][key]

\* C8: geojson_to_features_list applied to the result of
\* merged_features_list_to_geojson returns the original list.
C8_RoundTrip ==
    (fn = "merged_features_list_to_geojson" /\ pc = "done") =>
        ret = Return(args.features_list)

PolygonDone ==
    fn = "geojson_to_polgyon" /\ pc = "done"

RingOfInput(ring) ==
    /\ Len(ring) = Len(args.geojson["features"])
    /\ \A n \in DOMAIN ring :
            ring[n] = args.geojson["features"][n]["geometry"]["coordinates"]

\* C10 as stated: geojson_to_polgyon yields a single Feature, not a
\* collection, whose geometry is a Polygon of one ring, the coordinates of
\* the input Features in input order.
C10_SingleFeature ==
    PolygonDone =>
        /\ ret.value["type"] = "Feature"
        /\ ret.value["geometry"]["type"] = "Polygon"
        /\ Len(ret.value["geometry"]["coordinates"]) = 1
        /\ RingOfInput(ret.value["geometry"]["coordinates"][1])

\* C10 amended: geojson_to_polgyon yields a FeatureCollection of exactly
\* one Feature, with no properties, whose geometry is a Polygon of exactly
\* one ring, and the ring is the coordinates of the input Features in input
\* order, one entry each.
C10_CollectionOfOnePolygon ==
    PolygonDone =>
        /\ ret.value["type"] = "FeatureCollection"
        /\ Len(ret.value["features"]) = 1
        /\ LET feature == ret.value["features"][1] IN
            /\ feature["type"] = "Feature"
            /\ feature["properties"] = EmptyDict
            /\ feature["geometry"]["type"] = "Polygon"
            /\ Len(feature["geometry"]["coordinates"]) = 1
            /\ RingOfInput(feature["geometry"]["coordinates"][1])

C10_Witness ==
    /\ PolygonDone
    /\ Len(args.geojson["features"]) = 2
    /\ ret.value["features"][1]["geometry"]["coordinates"] = << << <<5, 5>>, <<1, 1>> >> >>

----------------------------------------------------------------------------
(* claims about the verification rules called without kwargs *)

\* C11: kwarg_check called with kwargs = None returns True without raising,
\* for every options list, and so do image_check(None) and
\* shape_bbox_check(None).
C11_NoneReturnsTrue ==
    (fn \in {"kwarg_check", "image_check", "shape_bbox_check"}
        /\ pc = "done" /\ args.kwargs.none) =>
        ret = Return(TRUE)

====
